---- MODULE Spec2Model ----
(***************************************************************************)
(* A model of tide-fluent-routes (src/src/lib.rs): the fluent RouteBuilder *)
(* tree, its flattening by build() and its registration on a Router.       *)
(*                                                                         *)
(* A chain such as root().method(..).at(p, |r| r.method(..)).with(m, ..)   *)
(* is a nest of calls: add_branch creates a fresh child, hands it to the   *)
(* closure `routes`, and once the closure returns pushes the configured    *)
(* child on the parent's branches.  `stack` holds the builders that are    *)
(* open at a moment: stack[1] is the builder the outermost chain works on, *)
(* the last element is the builder inside the innermost running closure.   *)
(***************************************************************************)
EXTENDS Integers, Sequences, FiniteSets, TLC

(* ------------------------------ inputs -------------------------------- *)

\* tide::http::Method values used by the callers
Methods == {"GET", "POST"}
\* path arguments of at()
Paths == {"api/v1", "api/v2"}
\* middleware arguments of with()
Middlewares == {"M1", "M2"}

\* deepest nesting of closures below the root chain
MaxDepth == 2
\* most branches (at/with calls) in one tree
MaxBranches == 2
\* most method() calls in one construction
MaxEndpoints == 3

\* the same three bounds for the chains of the crate's "tree of urls and
\* endpoints" example: at() only, one level deep
E2EDepth == 1
E2EBranches == 2
E2EEndpoints == 4

VARIABLES
    stack,        \* the RouteBuilders under construction, outermost first
    boxed,        \* number of BoxedEndpoint values created so far
    routes,       \* <<tree>> once register() has consumed the tree, else <<>>
    descriptors,  \* what routes.build() yielded inside register()
    registered    \* the register_endpoint calls the Router received, in order

vars == <<stack, boxed, routes, descriptors, registered>>

(* ------------------------------ data ---------------------------------- *)

\* enum RouteSegment
Root == <<"Root">>
Path(path) == <<"Path", path>>
Middleware(middleware) == <<"Middleware", middleware>>

\* struct RouteBuilder { route, branches, endpoints }
RouteBuilder(route) ==
    [route |-> route, branches |-> <<>>, endpoints |-> <<>>]

\* pub fn root()
root == RouteBuilder(Root)

\* struct EndpointDescriptor(String, Vec<Box<dyn Middleware>>, Method, BoxedEndpoint)
EndpointDescriptor(path, middleware, method, endpoint) ==
    [path |-> path, middleware |-> middleware, method |-> method,
     endpoint |-> endpoint]

\* BoxedEndpoint::new: every call boxes its argument anew, so the boxed
\* endpoint is identified by the number of the call that created it
BoxedEndpoint_new(n) == n

\* an insert that keeps the handler a method already has (entry().or_insert)
insert_keeps_first(endpoints, method, endpoint) ==
    [m \in DOMAIN endpoints \cup {method} |->
        IF m \in DOMAIN endpoints THEN endpoints[m] ELSE endpoint]

\* HashMap::insert on the endpoints map: the entry of `method` is replaced
insert(endpoints, method, endpoint) ==
    [m \in DOMAIN endpoints \cup {method} |->
        IF m = method THEN endpoint ELSE endpoints[m]]

\* a push at the front of the branches (insert(0, child))
push_front(branches, child) == <<child>> \o branches

\* Vec::push on the branches
push(branches, child) == Append(branches, child)

\* HashMap::into_iter: the entries, in an order the hasher decides
into_iter(endpoints) ==
    LET n == Cardinality(DOMAIN endpoints)
    IN  { [i \in 1..n |-> <<order[i], endpoints[order[i]]>>] :
            order \in { o \in [1..n -> DOMAIN endpoints] :
                          \A i, j \in 1..n : i # j => o[i] # o[j] } }

(* ------------------------------ build --------------------------------- *)

RECURSIVE build(_), flat_map_build(_)

\* self.branches.into_iter().flat_map(RouteBuilder::build): every outcome
flat_map_build(branches) ==
    IF branches = <<>>
    THEN { <<>> }
    ELSE { first \o rest : first \in build(Head(branches)),
                           rest \in flat_map_build(Tail(branches)) }

\* build() with the chain turned round: the descendants' descriptors first
build_sub_first(self) ==
    LET local_endpoints ==
            { [i \in 1..Len(entries) |->
                  EndpointDescriptor("", <<>>, entries[i][1], entries[i][2])] :
              entries \in into_iter(self.endpoints) }
        sub_endpoints == flat_map_build(self.branches)
    IN  { sub \o local : local \in local_endpoints, sub \in sub_endpoints }

\* build() that forgets to chain the branches' descriptors
build_local_only(self) ==
    { [i \in 1..Len(entries) |->
          EndpointDescriptor("", <<>>, entries[i][1], entries[i][2])] :
      entries \in into_iter(self.endpoints) }

\* RouteBuilder::build: the set of descriptor sequences it can yield
build(self) ==
    LET local_endpoints ==
            { [i \in 1..Len(entries) |->
                  EndpointDescriptor("", <<>>, entries[i][1], entries[i][2])] :
              entries \in into_iter(self.endpoints) }
        sub_endpoints == flat_map_build(self.branches)
    IN  { local \o sub : local \in local_endpoints, sub \in sub_endpoints }

(* ------------------------------ sizes --------------------------------- *)

RECURSIVE BranchCount(_), BranchCountAll(_)

\* number of nodes below (and not counting) a node
BranchCount(node) == BranchCountAll(node.branches)

BranchCountAll(branches) ==
    IF branches = <<>> THEN 0
    ELSE 1 + BranchCount(Head(branches)) + BranchCountAll(Tail(branches))

RECURSIVE OpenBranches(_)
\* branches of the tree under construction: the open children and all
\* the finished ones
OpenBranches(frames) ==
    IF frames = <<>> THEN 0
    ELSE BranchCount(Head(frames)) + OpenBranches(Tail(frames))

(* ------------------------------ actions ------------------------------- *)

Init ==
    /\ stack = <<root>>
    /\ boxed = 0
    /\ routes = <<>>
    /\ descriptors = <<>>
    /\ registered = <<>>

\* RouteBuilder::method on the builder of the innermost open chain
method(m) ==
    /\ stack # <<>>
    /\ LET top == Len(stack)
       IN  stack' = [stack EXCEPT ![top].endpoints =
                        insert(@, m, BoxedEndpoint_new(boxed))]
    /\ boxed' = boxed + 1
    /\ UNCHANGED <<routes, descriptors, registered>>

\* RouteBuilder::add_branch up to the call of `routes`: the closure starts
\* to run on a fresh child
add_branch(spec) ==
    /\ stack # <<>>
    /\ stack' = Append(stack, RouteBuilder(spec))
    /\ UNCHANGED <<boxed, routes, descriptors, registered>>

\* RouteBuilder::at
at(path) == add_branch(Path(path))

\* RouteBuilder::with
with(middleware) == add_branch(Middleware(middleware))

\* RouteBuilder::add_branch from the return of `routes`: the configured
\* child is pushed on the parent, which is returned to the caller's chain
routes_return ==
    /\ Len(stack) > 1
    /\ LET top == Len(stack)
           self == stack[top - 1]
       IN  stack' = [SubSeq(stack, 1, top - 1) EXCEPT ![top - 1] =
                        [self EXCEPT !.branches = push(@, stack[top])]]
    /\ UNCHANGED <<boxed, routes, descriptors, registered>>

\* Router::register_endpoint as the Router trait declares it: the router
\* receives (path, method, endpoint)
register_endpoint(path, m, endpoint) ==
    [path |-> path, method |-> m, endpoint |-> endpoint]

\* Router::register: consumes the finished tree, builds it and registers
\* every descriptor
register ==
    /\ Len(stack) = 1
    /\ \E out \in build(stack[1]) :
          /\ descriptors' = out
          /\ registered' = registered \o
                [i \in 1..Len(out) |->
                    register_endpoint(out[i].path, out[i].method,
                                      out[i].endpoint)]
    /\ routes' = <<stack[1]>>
    /\ stack' = <<>>
    /\ UNCHANGED boxed

\* the construction may still open a branch within the given bounds
Room(depth, branches) ==
    /\ Len(stack) <= depth
    /\ OpenBranches(stack) + (Len(stack) - 1) < branches

Next ==
    \/ \E m \in Methods : boxed < MaxEndpoints /\ method(m)
    \/ \E path \in Paths : Room(MaxDepth, MaxBranches) /\ at(path)
    \/ \E middleware \in Middlewares :
          Room(MaxDepth, MaxBranches) /\ with(middleware)
    \/ routes_return
    \/ register

Spec == Init /\ [][Next]_vars

\* the chains of the crate's second example: method() and at() only
NextE2E ==
    \/ \E m \in Methods : boxed < E2EEndpoints /\ method(m)
    \/ \E path \in Paths : Room(E2EDepth, E2EBranches) /\ at(path)
    \/ routes_return
    \/ register

SpecE2E == Init /\ [][NextE2E]_vars

(* ------------------- what the tree says of an endpoint ---------------- *)

RECURSIVE JoinPath(_)
\* the Path segments of a root-to-node path, joined by "/"
JoinPath(segments) ==
    IF segments = <<>> THEN ""
    ELSE IF Len(segments) = 1 THEN segments[1]
    ELSE segments[1] \o "/" \o JoinPath(Tail(segments))

RECURSIVE NodeRows(_, _, _), BranchRows(_, _, _)

\* one row per endpoint registered in the subtree of `node`: the endpoint,
\* its method, and the Path and Middleware segments from the root down to
\* its node, ancestor first
NodeRows(node, segments, chain) ==
    LET here == IF node.route[1] = "Path"
                THEN Append(segments, node.route[2]) ELSE segments
        mws  == IF node.route[1] = "Middleware"
                THEN Append(chain, node.route[2]) ELSE chain
    IN  { [endpoint |-> node.endpoints[m], method |-> m,
           path |-> JoinPath(here), middleware |-> mws] :
            m \in DOMAIN node.endpoints }
        \cup BranchRows(node.branches, here, mws)

BranchRows(branches, segments, chain) ==
    IF branches = <<>> THEN {}
    ELSE NodeRows(Head(branches), segments, chain)
         \cup BranchRows(Tail(branches), segments, chain)

\* the rows of the tree register() consumed
Rows == NodeRows(routes[1], <<>>, <<>>)

\* the row of the endpoint boxed by the n-th method() call
RowOf(endpoint) == CHOOSE r \in Rows : r.endpoint = endpoint

RECURSIVE EndpointsUnder(_), EndpointsUnderAll(_)
\* the endpoints registered at a node
EndpointsAt(node) == { node.endpoints[m] : m \in DOMAIN node.endpoints }

\* the endpoints registered at a node or below it
EndpointsUnder(node) == EndpointsAt(node) \cup EndpointsUnderAll(node.branches)

EndpointsUnderAll(branches) ==
    IF branches = <<>> THEN {}
    ELSE EndpointsUnder(Head(branches)) \cup EndpointsUnderAll(Tail(branches))

\* where build() put the descriptor of an endpoint
Pos(endpoint) ==
    CHOOSE i \in DOMAIN descriptors : descriptors[i].endpoint = endpoint

Registered == routes # <<>>

(* ------------------------------ C1 ------------------------------------ *)

\* C1: every descriptor build() yields carries as its path the "/"-joined
\* Path segments on the way from the root to the node of its endpoint.
C1_PathConcatenation ==
    Registered =>
        \A i \in DOMAIN descriptors :
            descriptors[i].path = RowOf(descriptors[i].endpoint).path

(* ------------------------------ C2 ------------------------------------ *)

\* C2: the middleware chain of every descriptor is the sequence of the
\* Middleware segments on the way from the root to the node of its
\* endpoint, ancestor first.
C2_MiddlewareChain ==
    Registered =>
        \A i \in DOMAIN descriptors :
            descriptors[i].middleware =
                RowOf(descriptors[i].endpoint).middleware

(* ------------------------------ C3 ------------------------------------ *)

\* C3: register() loses no middleware: an endpoint under with(..) branches
\* never reaches the router as the bare handler; its chain comes alongside,
\* in ancestor-first order (or the endpoint handed over is a wrapped one,
\* which is none of the tree's boxed endpoints).
C3_RegisterKeepsMiddleware ==
    Registered =>
        \A i \in DOMAIN registered :
            LET call == registered[i]
            IN  \A r \in Rows :
                    (r.endpoint = call.endpoint /\ r.middleware # <<>>) =>
                        /\ "middleware" \in DOMAIN call
                        /\ call.middleware = r.middleware

(* ------------------------------ C4 ------------------------------------ *)

RECURSIVE PreOrder(_)
\* in the built sequence the endpoints of `node` come before those of its
\* descendants, every earlier branch comes before every later one, and
\* the same holds inside every branch
PreOrder(node) ==
    LET n == Len(node.branches)
    IN  /\ \A e \in EndpointsAt(node) :
              \A f \in EndpointsUnderAll(node.branches) : Pos(e) < Pos(f)
        /\ \A j, k \in 1..n :
              j < k =>
                \A e \in EndpointsUnder(node.branches[j]) :
                    \A f \in EndpointsUnder(node.branches[k]) :
                        Pos(e) < Pos(f)
        /\ \A j \in 1..n : PreOrder(node.branches[j])

\* C4: build() yields the descriptors depth-first, pre-order, branches in
\* insertion order: a node's own descriptors precede its descendants', and
\* the subtree of an earlier sibling precedes the subtree of a later one.
C4_PreOrder ==
    Registered =>
        /\ \A e \in EndpointsUnder(routes[1]) :
              \E i \in DOMAIN descriptors : descriptors[i].endpoint = e
        /\ PreOrder(routes[1])

\* a root with an endpoint of its own and two sibling branches, each with
\* an endpoint, the second of them registered first in time
C4_Witness ==
    /\ Registered
    /\ Len(routes[1].branches) = 2
    /\ routes[1].endpoints = ("GET" :> 2)
    /\ routes[1].branches[1].endpoints = ("GET" :> 0)
    /\ routes[1].branches[2].endpoints = ("POST" :> 1)
    /\ Pos(2) = 1 /\ Pos(0) = 2 /\ Pos(1) = 3

(* ------------------------------ C5 ------------------------------------ *)

\* C5: build() is deterministic: the descriptor sequence it yielded is the
\* only one it can yield for the tree, whichever way it is replayed.
C5_Deterministic ==
    Registered => \A out \in build(routes[1]) : out = descriptors

(* ------------------------------ C10 ----------------------------------- *)

RECURSIVE EndpointCount(_), EndpointCountAll(_)
\* the sum of the sizes of the endpoint maps over the nodes of a subtree
EndpointCount(node) ==
    Cardinality(DOMAIN node.endpoints) + EndpointCountAll(node.branches)

EndpointCountAll(branches) ==
    IF branches = <<>> THEN 0
    ELSE EndpointCount(Head(branches)) + EndpointCountAll(Tail(branches))

\* C10: build() emits every registered endpoint exactly once and nothing
\* else: one descriptor per (node, method) entry with the entry's method
\* and handler, as many descriptors as entries, none for an empty tree.
C10_OneDescriptorPerEndpoint ==
    Registered =>
        /\ Len(descriptors) = EndpointCount(routes[1])
        /\ \A r \in Rows :
              Cardinality({ i \in DOMAIN descriptors :
                              /\ descriptors[i].endpoint = r.endpoint
                              /\ descriptors[i].method = r.method }) = 1
        /\ \A i \in DOMAIN descriptors :
              \E r \in Rows : /\ descriptors[i].endpoint = r.endpoint
                              /\ descriptors[i].method = r.method
        /\ (EndpointsUnder(routes[1]) = {} => descriptors = <<>>)

\* three entries on three nodes of a chain of branches, all of them built
C10_Witness ==
    /\ Registered
    /\ Len(routes[1].branches) = 1
    /\ Len(routes[1].branches[1].branches) = 1
    /\ EndpointCount(routes[1]) = 3
    /\ Cardinality(DOMAIN routes[1].endpoints) = 1
    /\ Cardinality(DOMAIN routes[1].branches[1].endpoints) = 1
    /\ Len(descriptors) = 3

(* ------------------------------ C6 ------------------------------------ *)

RECURSIVE EntriesOf(_, _), EntriesOfAll(_, _, _)
\* the (node, method, handler) entries of a subtree; a node is named by
\* the branch indices that lead to it from the root
EntriesOf(node, address) ==
    { <<address, m, node.endpoints[m]>> : m \in DOMAIN node.endpoints }
    \cup EntriesOfAll(node.branches, address, 1)

EntriesOfAll(branches, address, k) ==
    IF k > Len(branches) THEN {}
    ELSE EntriesOf(branches[k], Append(address, k))
         \cup EntriesOfAll(branches, address, k + 1)

RECURSIVE OpenEntries(_, _, _)
\* the entries of the tree under construction: an open child will become
\* the next branch of the builder that waits for it
OpenEntries(frames, k, address) ==
    IF k > Len(frames) THEN {}
    ELSE EntriesOf(frames[k], address)
         \cup OpenEntries(frames, k + 1,
                          Append(address, Len(frames[k].branches) + 1))

\* the node the innermost open chain works on
OpenAddress(frames) ==
    [k \in 1..(Len(frames) - 1) |-> Len(frames[k].branches) + 1]

\* method(m, h) on a node sets the node's entry of m to h, whether or not
\* m had a handler there, and changes no other entry of any node
C6_MethodStep ==
    \A m \in Methods :
        method(m) =>
            LET node == OpenAddress(stack)
                h == BoxedEndpoint_new(boxed)
            IN  OpenEntries(stack', 1, <<>>) =
                    { e \in OpenEntries(stack, 1, <<>>) :
                        ~(e[1] = node /\ e[2] = m) }
                    \cup { <<node, m, h>> }

\* the calls other than method() change no entry
C6_OtherStep ==
    (stack' # <<>> /\ ~ \E m \in Methods : method(m)) =>
        OpenEntries(stack', 1, <<>>) = OpenEntries(stack, 1, <<>>)

\* build() yields exactly one descriptor for every entry, with the handler
\* the entry holds, and no descriptor for a handler that was overwritten
C6_BuildStep ==
    register =>
        /\ \A e \in EntriesOf(stack[1], <<>>) :
              Cardinality({ i \in DOMAIN descriptors' :
                              descriptors'[i].endpoint = e[3] }) = 1
        /\ \A i \in DOMAIN descriptors' :
              \E e \in EntriesOf(stack[1], <<>>) :
                  /\ descriptors'[i].endpoint = e[3]
                  /\ descriptors'[i].method = e[2]
        /\ Len(descriptors') = Cardinality(EntriesOf(stack[1], <<>>))

\* C6: registering a method twice at one node overwrites (last write
\* wins): the node keeps one entry for the method, holding the second
\* handler, build() yields exactly one descriptor for it, and the entries
\* of other methods and other nodes are unchanged by any call.
C6_LastWriteWins ==
    [][C6_MethodStep /\ C6_OtherStep /\ C6_BuildStep]_vars

\* method(GET, h0) on the root, a branch with GET h1 in between, then
\* method(GET, h2) on the root: one GET descriptor for the root, with h2
C6_Witness ==
    /\ Registered
    /\ boxed = 3
    /\ routes[1].endpoints = ("GET" :> 2)
    /\ Len(routes[1].branches) = 1
    /\ routes[1].branches[1].endpoints = ("GET" :> 1)
    /\ Len(descriptors) = 2
    /\ descriptors[1].endpoint = 2 /\ descriptors[1].method = "GET"
    /\ descriptors[2].endpoint = 1

(* ------------------------------ C9 ------------------------------------ *)

\* the call opens a fresh child with the given segment and nothing else,
\* and leaves every open builder as it is
C9_Opens(segment) ==
    /\ Len(stack') = Len(stack) + 1
    /\ SubSeq(stack', 1, Len(stack)) = stack
    /\ stack'[Len(stack')].route = segment
    /\ stack'[Len(stack')].branches = <<>>
    /\ DOMAIN stack'[Len(stack')].endpoints = {}

\* the configured child becomes the last branch of its parent, whose
\* segment, endpoints and earlier branches stay, and the chain goes on
\* on the parent
C9_Returns ==
    LET n == Len(stack)
        parent == stack[n - 1]
        after == stack'[n - 1]
        old == Len(parent.branches)
    IN  /\ Len(stack') = n - 1
        /\ \A k \in 1..(n - 2) : stack'[k] = stack[k]
        /\ after.route = parent.route
        /\ after.endpoints = parent.endpoints
        /\ Len(after.branches) = old + 1
        /\ SubSeq(after.branches, 1, old) = parent.branches
        /\ after.branches[old + 1] = stack[n]

\* C9: at(path, f) and with(mw, f) change the parent only by appending one
\* child at the end of its branches; the child is f applied to a fresh
\* node with the given segment, no branches and no endpoints; the call
\* returns the parent, so what is chained after it acts on the parent.
C9_BranchAppended ==
    [][ /\ \A path \in Paths : at(path) => C9_Opens(Path(path))
        /\ \A mw \in Middlewares : with(mw) => C9_Opens(Middleware(mw))
        /\ routes_return => C9_Returns
        /\ \A m \in Methods :
              method(m) => \A k \in 1..(Len(stack) - 1) : stack'[k] = stack[k]
      ]_vars

\* a parent with two branches in the order they were added, and an
\* endpoint registered on the parent by a method() chained after them
C9_Witness ==
    /\ Len(stack) = 1
    /\ Len(stack[1].branches) = 2
    /\ stack[1].branches[1].route = Path("api/v1")
    /\ stack[1].branches[1].endpoints = ("GET" :> 0)
    /\ stack[1].branches[2].route = Middleware("M1")
    /\ stack[1].branches[2].endpoints = ("GET" :> 1)
    /\ stack[1].endpoints = ("GET" :> 2)
    /\ stack[1].route = Root

(* ------------------------------ C7 ------------------------------------ *)

\* root().method(GET, h0)
\*       .at("api/v1", |r| r.method(GET, h1).method(POST, h2))
\*       .at("api/v2", |r| r.method(GET, h3)), h0..h3 being the endpoints
\* boxed by the first to the fourth method() call
E2ETree ==
    [route |-> Root,
     endpoints |-> ("GET" :> 0),
     branches |->
        << [route |-> Path("api/v1"), branches |-> <<>>,
            endpoints |-> ("GET" :> 1) @@ ("POST" :> 2)],
           [route |-> Path("api/v2"), branches |-> <<>>,
            endpoints |-> ("GET" :> 3)] >>]

E2EDescriptors ==
    << EndpointDescriptor("", <<>>, "GET", 0),
       EndpointDescriptor("api/v1", <<>>, "GET", 1),
       EndpointDescriptor("api/v1", <<>>, "POST", 2),
       EndpointDescriptor("api/v2", <<>>, "GET", 3) >>

\* C7: the end-to-end scenario flattens to exactly ("", GET, h0),
\* ("api/v1", GET, h1), ("api/v1", POST, h2), ("api/v2", GET, h3), in that
\* order, each with an empty middleware chain.
C7_EndToEnd ==
    routes = <<E2ETree>> => descriptors = E2EDescriptors

(* ------------------------------ C8 ------------------------------------ *)

\* C8: register() calls register_endpoint once per descriptor of build(),
\* in build()'s order, with the descriptor's path, method and handler and
\* makes no other call; every endpoint is thereby registered under the
\* full path of its node, so that endpoints of one method at two nodes
\* get their two paths.
C8_RegisterEveryDescriptor ==
    Registered =>
        /\ Len(registered) = Len(descriptors)
        /\ \A i \in DOMAIN registered :
              /\ registered[i].path = descriptors[i].path
              /\ registered[i].method = descriptors[i].method
              /\ registered[i].endpoint = descriptors[i].endpoint
              /\ registered[i].path = RowOf(descriptors[i].endpoint).path

====
